---- MODULE Spec2Model ----
(***************************************************************************)
(* Webown: listing persistence (app/services/listing_service.py), the      *)
(* normaliser (app/scrapers/base.py), the HTML adapters' fragment parsing  *)
(* and price extraction, the scheduler (app/scheduler.py, main.py) and the *)
(* GET /scrape endpoint of the web API (app/api.py).                       *)
(*                                                                         *)
(* Encoding of Python values                                               *)
(*   - a dict is a TLA+ record (a function over its keys);                 *)
(*   - None is <<>> and a nullable value v is <<v>>;                       *)
(*   - a URL is known by its last '/'-separated segment, and that segment  *)
(*     (like every source_id cut out of it) is the sequence of its         *)
(*     '.'-separated parts: "a1.htm" is <<"a1","htm">>, "" is <<"">>;      *)
(*   - timestamps are clock ticks; now() is the start time of the          *)
(*     session's open transaction, datetime.utcnow() is the clock.         *)
(***************************************************************************)
EXTENDS Integers, Sequences, FiniteSets, TLC

\* ---------------------------------------------------------------- bounds
MaxTime == 2
MaxBatch == 2
MaxCalls == 2
NumServices == 2
MaxScrape == 1
MaxCards == 2
MaxUrls == 6
SmallPerPage == 2
Window == 1

\* ---------------------------------------------------------------- values
None == <<>>
Some(v) == <<v>>
EmptyStr == <<"">>

Get(d, k, default) == IF k \in DOMAIN d THEN d[k] ELSE default

Last(s) == s[Len(s)]

\* The adapters ScraperManager registers, in registration (dict) order.
Scrapers == <<"leboncoin", "seloger", "carte_coloc">>
Sources == {Scrapers[i] : i \in 1..Len(Scrapers)}

\* Listing fragments a result page can hold, known by the href of the fragment's
\* link (None: no link) and its title text; the fragments have no price,
\* location or details element, so price is None and the city is ''.
Hrefs == {None, Some(<<"a1", "htm">>), Some(EmptyStr)}
Titles == {"T1", "T2"}
Elements == [href : Hrefs, title : Titles]

\* ------------------------------------------------------------- adapters
\* LeboncoinScraper._parse_listing_element: None without a link, otherwise
\* source_id = url.split('/')[-1].split('.')[0].
LeboncoinParse(element) ==
    IF element.href = None THEN None
    ELSE Some([source_id |-> <<Head(element.href[1])>>,
               source_url |-> element.href[1],
               title |-> element.title,
               price |-> None,
               city |-> Some(""),
               description |-> ""])

\* SeLogerScraper._parse_listing_element: as Leboncoin's, plus surface and rooms.
SeLogerParse(element) ==
    IF element.href = None THEN None
    ELSE Some([source_id |-> <<Head(element.href[1])>>,
               source_url |-> element.href[1],
               title |-> element.title,
               price |-> None,
               surface |-> None,
               rooms |-> None,
               city |-> Some(""),
               description |-> ""])

\* CarteColocScraper._parse_listing_element: source_id = url.split('/')[-1].
CarteColocParse(element) ==
    IF element.href = None THEN None
    ELSE Some([source_id |-> element.href[1],
               source_url |-> element.href[1],
               title |-> element.title,
               price |-> None,
               city |-> Some(""),
               description |-> "",
               property_type |-> Some("room")])

ParseListingElement(source, element) ==
    CASE source = "leboncoin" -> LeboncoinParse(element)
      [] source = "seloger" -> SeLogerParse(element)
      [] source = "carte_coloc" -> CarteColocParse(element)

\* scrape_listings: the parsed fragments of the page, in page order; a fragment
\* whose parse returns None is skipped.
RECURSIVE ScrapeListings(_, _)
ScrapeListings(source, elements) ==
    IF elements = <<>> THEN <<>>
    ELSE LET listing == ParseListingElement(source, Head(elements))
         IN (IF listing = None THEN <<>> ELSE <<listing[1]>>)
            \o ScrapeListings(source, Tail(elements))

\* BaseScraper.normalize_listing
NormalizeListing(source_name, listing) ==
    [source |-> source_name,
     source_id |-> Get(listing, "source_id", EmptyStr),
     source_url |-> Get(listing, "source_url", EmptyStr),
     title |-> Get(listing, "title", ""),
     description |-> Get(listing, "description", ""),
     price |-> Get(listing, "price", None),
     surface |-> Get(listing, "surface", None),
     rooms |-> Get(listing, "rooms", None),
     bedrooms |-> Get(listing, "bedrooms", None),
     city |-> Get(listing, "city", None),
     postal_code |-> Get(listing, "postal_code", None),
     address |-> Get(listing, "address", None),
     latitude |-> Get(listing, "latitude", None),
     longitude |-> Get(listing, "longitude", None),
     property_type |-> Get(listing, "property_type", None),
     energy_class |-> Get(listing, "energy_class", None),
     furnished |-> Get(listing, "furnished", FALSE),
     images |-> Get(listing, "images", "[]")]

RECURSIVE NormalizeAll(_, _)
NormalizeAll(source_name, ls) ==
    IF ls = <<>> THEN <<>>
    ELSE <<NormalizeListing(source_name, Head(ls))>> \o NormalizeAll(source_name, Tail(ls))

\* ------------------------------------------------------- the Listing model
\* Columns a caller may set (every Column of Listing).
DataColumns == {"source", "source_id", "source_url", "title", "description", "price",
                "surface", "rooms", "bedrooms", "city", "postal_code", "address",
                "latitude", "longitude", "property_type", "energy_class", "furnished",
                "images"}
Columns == DataColumns \cup {"id", "is_active", "first_seen", "last_updated"}
\* nullable=False columns.
NotNullColumns == {"source", "source_id", "source_url", "title"}

\* is_active without its default=True.
ColumnDefaultInactive(k) == IF k \in {"furnished", "is_active"} THEN FALSE ELSE None

\* Columns a new row gets when the caller does not give them.
ColumnDefault(k) ==
    CASE k = "furnished" -> FALSE
      [] k = "is_active" -> TRUE
      [] OTHER -> None

\* ------------------------------------------------------------------ state
VARIABLES
    listings,   \* the listings table: the set of its rows
    now,        \* the clock
    svc,        \* one ListingService (and its database session) per caller
    calls,      \* calls the callers may still issue
    main,       \* the main thread: main() and ScrapingScheduler.run_once
    job,        \* the scheduler's job of each adapter: its running instances
    enabled,    \* settings.SCHEDULER_ENABLED
    fn,         \* one application of a field extractor and of the normaliser
    api,        \* one GET /scrape request on its way through the web API
    run         \* one scrape of one adapter or platform module

sched == <<main, job, enabled>>
vars == <<listings, now, svc, calls, main, job, enabled, fn, api, run>>

\* A ListingService after __init__: a fresh session, no transaction open.
\*   pc         where the caller stands: "idle", in save_listing before the
\*              SELECT ("query") or before the commit ("flush"), or "done"
\*   batch, i   save_listings' argument and its loop position
\*   saved_count, existing   the locals of save_listings / save_listing
\*   tx         start time of the session's open transaction, None when none
\*   log        one entry per completed save_listing / deactivate_old_listings
\*              of the current call (history, for the properties)
NewService ==
    [pc |-> "idle", batch |-> <<>>, i |-> 0, saved_count |-> 0, existing |-> None,
     tx |-> None, log |-> <<>>]

\* ------------------------------------------------------------- the table
KeyOf(r) == <<r.source, r.source_id>>

\* db.query(Listing).filter(source == ..., source_id == ...).first()
FindExisting(table, listing_data) ==
    LET found == {r \in table : r.source = listing_data.source
                                /\ r.source_id = listing_data.source_id}
    IN IF found = {} THEN None
       ELSE Some(CHOOSE r \in found : \A q \in found : r.id <= q.id)

\* The attributes the setattr loop leaves with a net change: the unit of work
\* compares each attribute with the value the session loaded.
ChangedKeys(existing, listing_data) ==
    {k \in DOMAIN listing_data : k \in Columns /\ listing_data[k] # existing[k]}

\* The setattr loop writes the row's own values back.
UpdatedRowKeepsFields(row, listing_data, changed, t) ==
    [k \in DOMAIN row |-> IF k = "last_updated" THEN t ELSE row[k]]

\* The row after UPDATE listings SET <changed>, last_updated = now() WHERE id = ...
\* (onupdate=func.now() is part of every UPDATE of the table).
UpdatedRow(row, listing_data, changed, t) ==
    [k \in DOMAIN row |->
        IF k \in changed THEN listing_data[k]
        ELSE IF k = "last_updated" THEN t
        ELSE row[k]]

\* The update branch also stamps first_seen.
FlushUpdateStampsFirstSeen(table, existing, listing_data, t) ==
    {IF r.id = existing.id
     THEN [UpdatedRow(r, listing_data, ChangedKeys(existing, listing_data), t)
               EXCEPT !.first_seen = t]
     ELSE r : r \in table}

\* The flush of an object the session loaded and the setattr loop touched: an
\* UPDATE is emitted only when some attribute has a net change.
FlushUpdate(table, existing, listing_data, t) ==
    LET changed == ChangedKeys(existing, listing_data)
    IN IF changed = {} THEN table
       ELSE {IF r.id = existing.id THEN UpdatedRow(r, listing_data, changed, t) ELSE r
             : r \in table}

\* Listing(**listing_data) once inserted: column defaults for what is not given,
\* first_seen and last_updated from server_default=func.now().
NewRow(table, listing_data, t) ==
    [k \in Columns |->
        CASE k = "id" -> Cardinality(table) + 1
          [] k \in {"first_seen", "last_updated"} -> t
          [] k \in DOMAIN listing_data -> listing_data[k]
          [] OTHER -> ColumnDefault(k)]

NoUniqueIndex(table, row) == FALSE

\* idx_source_source_id (unique=True) rejects a second row of the same key.
UniqueViolation(table, row) == \E r \in table : KeyOf(r) = KeyOf(row)

\* A nullable=False column the caller gave no value for is NULL in the INSERT
\* (the adapters' values for these columns are always strings, never None).
NotNullViolation(listing_data) == ~(NotNullColumns \subseteq DOMAIN listing_data)

\* Listing(**listing_data) raises TypeError for a key that is no attribute; the
\* INSERT raises IntegrityError on a NOT NULL or unique violation.
InsertFails(table, listing_data, t) ==
    \/ ~(DOMAIN listing_data \subseteq Columns)
    \/ NotNullViolation(listing_data)
    \/ UniqueViolation(table, NewRow(table, listing_data, t))

\* listing_data['source'] / listing_data['source_id'] raise KeyError.
MissingKey(listing_data) ==
    ~({"source", "source_id"} \subseteq DOMAIN listing_data)

\* The filter without its source condition.
OldListingsOfAnySource(table, source, cutoff_date) ==
    {r \in table : r.is_active = TRUE /\ r.last_updated < cutoff_date}

\* The rows deactivate_old_listings' filter selects.
OldListings(table, source, cutoff_date) ==
    {r \in table : r.source = source /\ r.is_active = TRUE /\ r.last_updated < cutoff_date}

\* Query.update({'is_active': False}) on those rows.
DeactivatedRow(r, t) == [r EXCEPT !.is_active = FALSE, !.last_updated = t]

\* --------------------------------------------------------- ListingService
\* now() inside the session's transaction; a statement opens one if none is open.
TxTime(s) == IF s.tx = None THEN now ELSE s.tx[1]

\* History of one completed operation: its argument, the table before and
\* after it, what it returned, what now() was in its transaction and what the
\* clock showed.
LogEntry(arg, pre, post, ret, time) ==
    [arg |-> arg, pre |-> pre, post |-> post, ret |-> ret, time |-> time, clock |-> now]

\* if self.save_listing(listing_data): saved_count += 1
Counted(saved_count, ret) == IF ret = None THEN saved_count ELSE saved_count + 1

\* The loop gives up at the first record that fails.
AfterSaveStopsAtFailure(s, ret, entry, tx) ==
    [s EXCEPT !.saved_count = Counted(@, ret),
              !.i = @ + 1,
              !.pc = IF s.i < Len(s.batch) /\ ret # None THEN "query" ELSE "done",
              !.existing = None,
              !.tx = tx,
              !.log = Append(@, entry)]

\* save_listings' loop after save_listing returned ret for record i: count the
\* truthy result and go on to the next record, or return.
AfterSave(s, ret, entry, tx) ==
    [s EXCEPT !.saved_count = Counted(@, ret),
              !.i = @ + 1,
              !.pc = IF s.i < Len(s.batch) THEN "query" ELSE "done",
              !.existing = None,
              !.tx = tx,
              !.log = Append(@, entry)]

\* save_listings(listings): saved_count = 0 and the loop starts.
StartSaveListings(s, batch) ==
    [s EXCEPT !.pc = IF batch = <<>> THEN "done" ELSE "query",
              !.batch = batch, !.i = 1, !.saved_count = 0,
              !.existing = None, !.log = <<>>]

\* save_listing up to the SELECT. A record without 'source' or 'source_id'
\* raises KeyError before any statement: except, rollback, return None.
Query(t) ==
    /\ svc[t].pc = "query"
    /\ LET s == svc[t]
           listing_data == s.batch[s.i]
       IN IF MissingKey(listing_data)
          THEN svc' = [svc EXCEPT ![t] =
                          AfterSave(s, None,
                                    LogEntry(listing_data, listings, listings, None, TxTime(s)),
                                    None)]
          ELSE svc' = [svc EXCEPT ![t] =
                          [s EXCEPT !.pc = "flush",
                                    !.existing = FindExisting(listings, listing_data),
                                    !.tx = Some(TxTime(s))]]
    /\ UNCHANGED <<listings, now, calls, sched, fn, api, run>>

\* A rejected INSERT is not rolled back: its row stays in the table.
CommitKeepsFailedRow(table, existing, listing_data, time) ==
    IF existing # None
    THEN LET post == FlushUpdate(table, existing[1], listing_data, time)
         IN [table |-> post, ret |-> Some(CHOOSE r \in post : r.id = existing[1].id)]
    ELSE IF InsertFails(table, listing_data, time)
    THEN [table |-> IF DOMAIN listing_data \subseteq Columns
                    THEN table \cup {NewRow(table, listing_data, time)}
                    ELSE table,
          ret |-> None]
    ELSE LET row == NewRow(table, listing_data, time)
         IN [table |-> table \cup {row}, ret |-> Some(row)]

\* The table after save_listing's commit, and the row it returns (None after
\* the except branch): the setattr loop's UPDATE for a found row, else the INSERT.
Commit(table, existing, listing_data, time) ==
    IF existing # None
    THEN LET post == FlushUpdate(table, existing[1], listing_data, time)
         IN [table |-> post, ret |-> Some(CHOOSE r \in post : r.id = existing[1].id)]
    ELSE IF InsertFails(table, listing_data, time)
    THEN [table |-> table, ret |-> None]
    ELSE LET row == NewRow(table, listing_data, time)
         IN [table |-> table \cup {row}, ret |-> Some(row)]

\* save_listing from the if to its return: the setattr loop or the add, the
\* commit, the refresh (which opens the session's next transaction); on an
\* exception the rollback (which leaves no transaction open) and None.
Flush(t) ==
    /\ svc[t].pc = "flush"
    /\ LET s == svc[t]
           listing_data == s.batch[s.i]
           done == Commit(listings, s.existing, listing_data, TxTime(s))
       IN /\ listings' = done.table
          /\ svc' = [svc EXCEPT ![t] =
                        AfterSave(s, done.ret,
                                  LogEntry(listing_data, listings, done.table, done.ret,
                                           TxTime(s)),
                                  IF done.ret = None THEN None ELSE Some(now))]
    /\ UNCHANGED <<now, calls, sched, fn, api, run>>

\* deactivate_old_listings(source, days): one UPDATE and the commit.
DeactivateOldListings(t, source, days) ==
    LET s == svc[t]
        cutoff_date == now - days
        old == OldListings(listings, source, cutoff_date)
        table == {IF r \in old THEN DeactivatedRow(r, TxTime(s)) ELSE r : r \in listings}
    IN /\ listings' = table
       /\ svc' = [svc EXCEPT ![t] =
                     [s EXCEPT !.pc = "done", !.tx = None, !.batch = <<>>, !.i = 0,
                               !.saved_count = 0,
                               !.log = <<LogEntry([source |-> source, days |-> days,
                                                   cutoff_date |-> cutoff_date],
                                                  listings, table, Cardinality(old),
                                                  TxTime(s))>>]]

\* ------------------------------------------------ callers of the repository
RECURSIVE SeqsUpTo(_, _)
SeqsUpTo(S, n) ==
    IF n = 0 THEN {<<>>}
    ELSE LET shorter == SeqsUpTo(S, n - 1)
         IN shorter \cup {Append(q, x) : q \in {r \in shorter : Len(r) = n - 1}, x \in S}

Pages == SeqsUpTo(Elements, MaxBatch)
Days == 0..Window
\* The sources the callers below work for: two adapters when the calls come one
\* after the other, the same adapter when they race.
CallerSources == {"leboncoin", "carte_coloc"}
RacingSources == {"leboncoin"}

Ready(t) == svc[t].pc \in {"idle", "done"} /\ calls > 0

\* A caller hands save_listings what an adapter scraped, as scrape_listings
\* returned it.
CallSaveScraped(t, sources) ==
    /\ Ready(t)
    /\ \E source \in sources, page \in Pages :
          svc' = [svc EXCEPT ![t] =
                     StartSaveListings(svc[t], ScrapeListings(source, page))]
    /\ calls' = calls - 1
    /\ UNCHANGED <<listings, now, sched, fn, api, run>>

\* A caller hands save_listings what an adapter scraped, normalised.
CallSaveNormalized(t, sources) ==
    /\ Ready(t)
    /\ \E source \in sources, page \in Pages :
          svc' = [svc EXCEPT ![t] =
                     StartSaveListings(svc[t],
                         NormalizeAll(source, ScrapeListings(source, page)))]
    /\ calls' = calls - 1
    /\ UNCHANGED <<listings, now, sched, fn, api, run>>

CallDeactivate(t, sources) ==
    /\ Ready(t)
    /\ \E source \in sources, days \in Days : DeactivateOldListings(t, source, days)
    /\ calls' = calls - 1
    /\ UNCHANGED <<now, sched, fn, api, run>>

Tick ==
    /\ now < MaxTime
    /\ now' = now + 1
    /\ UNCHANGED <<listings, svc, calls, sched, fn, api, run>>

\* What earlier runs of the program can have left in the table at time 1: nothing,
\* a listing sighted at time 0, or that listing deactivated since.
Sighted ==
    NewRow({}, NormalizeListing("leboncoin",
                                LeboncoinParse([href |-> Some(<<"a1", "htm">>),
                                                title |-> "T1"])[1]), 0)
Tables == {{}, {Sighted}, {DeactivatedRow(Sighted, 0)}}

\* No extractor is being applied and no request is being served.
NoFields == fn = [pc |-> "none"]
NoRequest == api = [pc |-> "none"]
NoRun == run = [pc |-> "none"]

NoScheduler ==
    /\ main = [pc |-> "none", source |-> None, k |-> 0, all_listings |-> <<>>,
               scraped |-> <<>>]
    /\ job = [j \in {} |-> 0]
    /\ enabled = FALSE

\* One ListingService, its calls one after the other.
Init ==
    /\ listings \in Tables
    /\ now = 1
    /\ svc = [t \in {1} |-> NewService]
    /\ calls = MaxCalls
    /\ NoScheduler
    /\ NoFields
    /\ NoRequest
    /\ NoRun

\* NumServices ListingServices on the one table, their steps interleaved.
InitConc ==
    /\ listings \in Tables
    /\ now = 1
    /\ svc = [t \in 1..NumServices |-> NewService]
    /\ calls = NumServices
    /\ NoScheduler
    /\ NoFields
    /\ NoRequest
    /\ NoRun

Next ==
    \/ \E t \in DOMAIN svc : Query(t)
    \/ \E t \in DOMAIN svc : Flush(t)
    \/ \E t \in DOMAIN svc : CallSaveScraped(t, CallerSources)
    \/ \E t \in DOMAIN svc : CallSaveNormalized(t, CallerSources)
    \/ \E t \in DOMAIN svc : CallDeactivate(t, CallerSources)
    \/ Tick

NextConc ==
    \/ \E t \in DOMAIN svc : Query(t)
    \/ \E t \in DOMAIN svc : Flush(t)
    \/ \E t \in DOMAIN svc : CallSaveScraped(t, RacingSources)
    \/ \E t \in DOMAIN svc : CallSaveNormalized(t, RacingSources)
    \/ \E t \in DOMAIN svc : CallDeactivate(t, RacingSources)
    \/ Tick

Spec == Init /\ [][Next]_vars

ConcSpec == InitConc /\ [][NextConc]_vars

\* ------------------------------------------------ main.py and the scheduler
\* Thread 0 is the main thread; thread j in 1..3 runs the job of Scrapers[j].
MainThread == 0
Jobs == 1..Len(Scrapers)

\* What one run of an adapter finds on its result page.
ScrapedPages == SeqsUpTo({e \in Elements : e.title = "T1"}, MaxScrape)

\* How one call of scraper.scrape_listings() ends: it raises (None; fetch_page
\* catches only requests' RequestException) or it returns the listings parsed
\* from the page it fetched.
ScrapeOutcomes == {None} \cup {Some(page) : page \in ScrapedPages}

\* Source names a caller of run_once may pass that no adapter is registered for.
UnknownSources == {"pap"}

\* ScraperManager.get_scraper
GetScraper(source) == IF source \in Sources THEN Some(source) ELSE None

\* run_once(source) with a source: get_scraper; without a scraper run_once
\* returns; else scrape_listings, ListingService(), and save_listings(listings)
\* starts with the listings as scraped. Nothing in run_once or main catches an
\* exception of scrape_listings: the process ends with it.
RunOnceSource ==
    /\ main.pc = "run_once"
    /\ main.source # None
    /\ IF GetScraper(main.source[1]) = None
       THEN /\ main' = [main EXCEPT !.pc = "ran"]
            /\ UNCHANGED svc
       ELSE \E outcome \in ScrapeOutcomes :
              IF outcome = None
              THEN /\ main' = [main EXCEPT !.pc = "crashed"]
                   /\ UNCHANGED svc
              ELSE /\ svc' = [svc EXCEPT ![MainThread] =
                                 StartSaveListings(NewService,
                                     ScrapeListings(main.source[1], outcome[1]))]
                   /\ main' = [main EXCEPT !.pc = "saving"]
    /\ UNCHANGED <<listings, now, calls, job, enabled, fn, api, run>>

\* run_once() without a source enters ScraperManager.scrape_all.
RunOnceAll ==
    /\ main.pc = "run_once"
    /\ main.source = None
    /\ main' = [main EXCEPT !.pc = "scrape_all", !.k = 1, !.all_listings = <<>>,
                             !.scraped = <<>>]
    /\ UNCHANGED <<listings, now, svc, calls, job, enabled, fn, api, run>>

\* scrape_all's loop stops at the first adapter whose scrape raises.
ScrapeAllRoundStopsAtFailure(all_listings, k, outcome) ==
    IF outcome = None
    THEN [all_listings |-> all_listings, k |-> Len(Scrapers) + 1]
    ELSE [all_listings |-> all_listings
              \o NormalizeAll(Scrapers[k], ScrapeListings(Scrapers[k], outcome[1])),
          k |-> k + 1]

\* One round of scrape_all's loop, for the k-th adapter: its listings,
\* normalised, extend all_listings; when the scrape raises the except branch
\* logs and the loop continues with the next adapter.
ScrapeAllRound(all_listings, k, outcome) ==
    [all_listings |->
        IF outcome = None THEN all_listings
        ELSE all_listings
                 \o NormalizeAll(Scrapers[k], ScrapeListings(Scrapers[k], outcome[1])),
     k |-> k + 1]

\* One round of scrape_all's loop; after the last adapter scrape_all returns
\* all_listings, run_once opens a ListingService and save_listings(all_listings)
\* starts. scraped remembers how each adapter's scrape ended (history).
ScrapeAll ==
    /\ main.pc = "scrape_all"
    /\ \E outcome \in ScrapeOutcomes :
          LET round == ScrapeAllRound(main.all_listings, main.k, outcome)
              scraped == Append(main.scraped,
                                [source |-> Scrapers[main.k],
                                 listings |-> IF outcome = None THEN None
                                              ELSE Some(ScrapeListings(Scrapers[main.k],
                                                                       outcome[1]))])
          IN IF round.k <= Len(Scrapers)
             THEN /\ main' = [main EXCEPT !.k = round.k,
                                          !.all_listings = round.all_listings,
                                          !.scraped = scraped]
                  /\ UNCHANGED svc
             ELSE /\ main' = [main EXCEPT !.pc = "saving", !.k = round.k,
                                          !.all_listings = round.all_listings,
                                          !.scraped = scraped]
                  /\ svc' = [svc EXCEPT ![MainThread] =
                                StartSaveListings(NewService, round.all_listings)]
    /\ UNCHANGED <<listings, now, calls, job, enabled, fn, api, run>>

\* save_listings returned: service.close() and run_once returns; the service
\* and the listings are dropped.
RunOnceReturn ==
    /\ main.pc = "saving"
    /\ svc[MainThread].pc = "done"
    /\ main' = [main EXCEPT !.pc = "ran", !.k = 0, !.all_listings = <<>>,
                             !.scraped = <<>>]
    /\ svc' = [svc EXCEPT ![MainThread] = NewService]
    /\ UNCHANGED <<listings, now, calls, job, enabled, fn, api, run>>

\* main calls scheduler.start() whatever SCHEDULER_ENABLED says.
StartAlways ==
    /\ main.pc = "ran"
    /\ main' = [main EXCEPT !.pc = "started"]
    /\ UNCHANGED <<listings, now, svc, calls, job, enabled, fn, api, run>>

\* main after the initial scrape: scheduler.start() if SCHEDULER_ENABLED, else
\* the process ends.
Start ==
    /\ main.pc = "ran"
    /\ main' = [main EXCEPT !.pc = IF enabled THEN "started" ELSE "exited"]
    /\ UNCHANGED <<listings, now, svc, calls, job, enabled, fn, api, run>>

\* add_job with max_instances=2.
InstanceFreeOfTwo(j) == job[j] < 2

\* add_job is called without max_instances: the scheduler runs at most one
\* instance of a job and skips a run that is due while an instance runs.
InstanceFree(j) == job[j] < 1

\* The interval trigger of job j fires and the job's run is submitted to the
\* executor's thread: _scrape_<source> gets its scraper, scrapes, opens a
\* ListingService and save_listings(listings) starts with the listings as
\* scraped; when the scrape raises the job is in its except branch.
Trigger(j) ==
    /\ main.pc = "started"
    /\ InstanceFree(j)
    /\ \E outcome \in ScrapeOutcomes :
          svc' = [svc EXCEPT ![j] =
                     IF outcome = None THEN [NewService EXCEPT !.pc = "except"]
                     ELSE StartSaveListings(NewService,
                                            ScrapeListings(Scrapers[j], outcome[1]))]
    /\ job' = [job EXCEPT ![j] = @ + 1]
    /\ UNCHANGED <<listings, now, calls, main, enabled, fn, api, run>>

\* The except branch is missing: the job does not come back from an exception.
JobReturnOnlyFromSave(j) ==
    /\ job[j] > 0
    /\ svc[j].pc = "done"
    /\ job' = [job EXCEPT ![j] = @ - 1]
    /\ svc' = [svc EXCEPT ![j] = NewService]
    /\ UNCHANGED <<listings, now, calls, main, enabled, fn, api, run>>

\* The job is over: save_listings returned and service.close() ran, or the
\* except branch logged the exception; the service is dropped.
JobReturn(j) ==
    /\ job[j] > 0
    /\ svc[j].pc \in {"done", "except"}
    /\ job' = [job EXCEPT ![j] = @ - 1]
    /\ svc' = [svc EXCEPT ![j] = NewService]
    /\ UNCHANGED <<listings, now, calls, main, enabled, fn, api, run>>

\* main() has built the ScrapingScheduler and is about to call run_once; a
\* caller of run_once may name a source (main passes none).
InitSched ==
    /\ listings \in Tables
    /\ now = 1
    /\ svc = [t \in {MainThread} \cup Jobs |-> NewService]
    /\ calls = 0
    /\ main \in [pc : {"run_once"},
                 source : {None} \cup {Some(x) : x \in Sources \cup UnknownSources},
                 k : {0}, all_listings : {<<>>}, scraped : {<<>>}]
    /\ job = [j \in Jobs |-> 0]
    /\ enabled \in BOOLEAN
    /\ NoFields
    /\ NoRequest
    /\ NoRun

NextSched ==
    \/ RunOnceSource
    \/ RunOnceAll
    \/ ScrapeAll
    \/ RunOnceReturn
    \/ Start
    \/ \E j \in Jobs : Trigger(j)
    \/ \E j \in Jobs : JobReturn(j)
    \/ \E t \in DOMAIN svc : Query(t)
    \/ \E t \in DOMAIN svc : Flush(t)
    \/ Tick

\* Every thread that can take a step eventually does, every due trigger fires
\* and the clock goes on.
Fairness ==
    /\ WF_vars(RunOnceSource \/ RunOnceAll \/ ScrapeAll \/ RunOnceReturn \/ Start)
    /\ \A j \in Jobs : WF_vars(Trigger(j) \/ JobReturn(j))
    /\ \A t \in {MainThread} \cup Jobs : WF_vars(Query(t) \/ Flush(t))
    /\ WF_vars(Tick)

SchedSpec == InitSched /\ [][NextSched]_vars /\ Fairness

\* ------------------------------------- field extractors and the normaliser
\* A text is the sequence of its characters; "eur" stands for the one
\* character of the euro sign. A float is its sign, its whole part and the
\* digits of its fraction without trailing zeros.
Digits == <<"0", "1", "2", "3", "4", "5", "6", "7", "8", "9">>
DigitChars == {Digits[i] : i \in 1..Len(Digits)}
DigitValue(c) == (CHOOSE i \in 1..Len(Digits) : Digits[i] = c) - 1

RECURSIVE WholeValue(_)
WholeValue(ds) ==
    IF ds = <<>> THEN 0
    ELSE WholeValue(SubSeq(ds, 1, Len(ds) - 1)) * Len(Digits) + DigitValue(Last(ds))

RECURSIVE StripTrailingZeros(_)
StripTrailingZeros(ds) ==
    IF ds # <<>> /\ Last(ds) = "0" THEN StripTrailingZeros(SubSeq(ds, 1, Len(ds) - 1))
    ELSE ds

Float(neg, whole, frac) == [neg |-> neg, whole |-> whole, frac |-> frac]

\* str.replace(old, new): every occurrence of old, left to right.
RECURSIVE Replace(_, _, _)
Replace(text, old, new) ==
    IF Len(text) < Len(old) THEN text
    ELSE IF SubSeq(text, 1, Len(old)) = old
    THEN new \o Replace(SubSeq(text, Len(old) + 1, Len(text)), old, new)
    ELSE <<Head(text)>> \o Replace(Tail(text), old, new)

\* float(text) for texts of digits, '.', signs and other printable
\* characters: an optional sign, then digits with at most one '.' and at least
\* one digit; anything else raises ValueError (None).
ParseFloat(text) ==
    LET signed == text # <<>> /\ Head(text) \in {"+", "-"}
        body == IF signed THEN Tail(text) ELSE text
        dots == {i \in 1..Len(body) : body[i] = "."}
        dot == IF dots = {} THEN Len(body) + 1 ELSE CHOOSE i \in dots : TRUE
        whole == SubSeq(body, 1, dot - 1)
        frac == SubSeq(body, dot + 1, Len(body))
    IN IF \/ Cardinality(dots) > 1
          \/ \E i \in 1..Len(body) : body[i] \notin DigitChars \cup {"."}
          \/ whole \o frac = <<>>
       THEN None
       ELSE Some(Float(signed /\ Head(text) = "-", WholeValue(whole),
                       StripTrailingZeros(frac)))

\* The replacements each adapter's _extract_price makes before float().
LeboncoinPriceClean(price_text) ==
    Replace(Replace(Replace(price_text, <<"eur">>, <<>>), <<" ">>, <<>>), <<",">>, <<".">>)

SeLogerPriceClean(price_text) ==
    Replace(Replace(Replace(price_text, <<"eur">>, <<>>), <<" ">>, <<>>), <<",">>, <<".">>)

CarteColocPriceClean(price_text) ==
    Replace(Replace(Replace(Replace(price_text, <<"eur">>, <<>>),
                            <<"/", "m", "o", "i", "s">>, <<>>),
                    <<" ">>, <<>>),
            <<",">>, <<".">>)

\* _extract_price of the source's scraper: None for None (AttributeError) and
\* for a text float() rejects (ValueError).
ExtractPrice(source, price_text) ==
    IF price_text = None THEN None
    ELSE ParseFloat(CASE source = "leboncoin" -> LeboncoinPriceClean(price_text[1])
                      [] source = "seloger" -> SeLogerPriceClean(price_text[1])
                      [] source = "carte_coloc" -> CarteColocPriceClean(price_text[1]))

\* '1 234 EUR', '500EUR/mois', 'Prix sur demande', '' and other price texts.
Text1234 == <<"1", " ", "2", "3", "4", " ", "eur">>
Text500Mois == <<"5", "0", "0", "eur", "/", "m", "o", "i", "s">>
TextSurDemande ==
    <<"P", "r", "i", "x", " ", "s", "u", "r", " ", "d", "e", "m", "a", "n", "d", "e">>
PriceTexts ==
    {None, Some(<<>>), Some(Text1234), Some(Text500Mois), Some(TextSurDemande),
     Some(<<"4", "5", "0", ",", "5", "0", " ", "eur", " ", "/", "m", "o", "i", "s">>),
     Some(<<"1", ".", "2", "0", "0", ",", "5", " ", "eur">>),
     Some(<<"-", "5", "eur">>),
     Some(<<"eur">>)}

\* The partial records handed to normalize_listing: any subset of these keys,
\* each with one value.
PartialValues ==
    [source_id |-> <<"a1">>, title |-> "T1", price |-> Some(Float(FALSE, 500, <<>>)),
     furnished |-> TRUE, is_active |-> FALSE, charges_included |-> TRUE]
Partials == {[k \in keys |-> PartialValues[k]] : keys \in SUBSET DOMAIN PartialValues}

\* An adapter is about to normalise a partial record and to extract a price.
InitFields ==
    /\ listings = {}
    /\ now = 1
    /\ svc = [t \in {} |-> NewService]
    /\ calls = 0
    /\ NoScheduler
    /\ NoRequest
    /\ NoRun
    /\ fn \in [pc : {"input"}, source : Sources, listing : Partials,
               price_text : PriceTexts, normalized : {None}, price : {None}]

\* scraper.normalize_listing(listing)
Normalize ==
    /\ fn.pc \in {"input", "extracted"}
    /\ fn.normalized = None
    /\ fn' = [fn EXCEPT !.pc = "normalized",
                        !.normalized = Some(NormalizeListing(fn.source, fn.listing))]
    /\ UNCHANGED <<listings, now, svc, calls, sched, api, run>>

\* scraper._extract_price(price_text)
ExtractPriceCall ==
    /\ fn.pc = "input"
    /\ fn' = [fn EXCEPT !.pc = "extracted",
                        !.price = ExtractPrice(fn.source, fn.price_text)]
    /\ UNCHANGED <<listings, now, svc, calls, sched, api, run>>

NextFields == Normalize \/ ExtractPriceCall

FieldSpec == InitFields /\ [][NextFields]_vars

\* ------------------------------------------------- the web API: GET /scrape
\* A query parameter is None when the request does not carry it. A number
\* parameter carries a text that is a number or is not one.
NotANumber == [numeric |-> FALSE, value |-> 0]
Number(n) == [numeric |-> TRUE, value |-> n]

\* The requests a client may send.
Queries ==
    [ville : {None, Some(""), Some("Paris")},
     code_postal : {None, Some("75001")},
     prix_max : {None, Some(NotANumber), Some(Number(-5)), Some(Number(0)),
                 Some(Number(1000))},
     plateforme : {None, Some("SeLoger"), Some("espacil"), Some("Studapart"),
                   Some("leboncoin")},
     surface_min : {None, Some(Number(-1)), Some(Number(30))}]

\* str.upper() on the platform names a request may carry.
Upper(name) ==
    CASE name = "SeLoger" -> "SELOGER"
      [] name = "espacil" -> "ESPACIL"
      [] name = "Studapart" -> "STUDAPART"
      [] name = "leboncoin" -> "LEBONCOIN"

\* The members of the Platform enum the handler dispatches on.
PlatformNames == {"SELOGER", "ESPACIL", "STUDAPART"}

\* The parameters FastAPI rejects from get_scrape_request's signature: a
\* required one that is missing, a float one whose text is no number.
QueryErrors(query) ==
    {k \in {"ville", "plateforme"} : query[k] = None}
    \cup {k \in {"prix_max", "surface_min"} : query[k] # None /\ ~query[k][1].numeric}

\* The arguments get_scrape_request is called with.
Parsed(query) ==
    [ville |-> query.ville[1],
     code_postal |-> query.code_postal,
     prix_max |-> IF query.prix_max = None THEN None ELSE Some(query.prix_max[1].value),
     plateforme |-> query.plateforme[1],
     surface_min |-> IF query.surface_min = None THEN None
                     ELSE Some(query.surface_min[1].value)]

\* The fields ScrapeRequestDTO's validation rejects: min_length=1, gt=0 and
\* validate_platform.
DTOErrors(args) ==
    {k \in {"ville"} : args.ville = ""}
    \cup {k \in {"prix_max", "surface_min"} : args[k] # None /\ ~(args[k][1] > 0)}
    \cup {k \in {"plateforme"} : Upper(args.plateforme) \notin PlatformNames}

\* How the scrape of a platform's module can end: it returns n results or None,
\* or it raises.
Returns(n) == [kind |-> "results", n |-> n, exc |-> "", message |-> ""]
ReturnsNone == [kind |-> "none", n |-> 0, exc |-> "", message |-> ""]
Raises(exc, message) == [kind |-> "raise", n |-> 0, exc |-> exc, message |-> message]

\* se_loger_scraper.scrape: None when the autocomplete fails, the results, a
\* ValueError of card_to_result's float(), or an error of the web driver.
\* espacil_scraper.scrape: ValueError without ESPACIL_BASE_URL, else get_url's
\* NameError. studapart_scraper.scrape catches what it raises.
ScrapeResults(platform_enum) ==
    CASE platform_enum = "SELOGER" ->
            {ReturnsNone, Returns(0), Returns(1),
             Raises("ValueError", "could not convert string to float"),
             Raises("WebDriverException", "Message: Process unexpectedly closed")}
      [] platform_enum = "ESPACIL" ->
            {Raises("ValueError", "ESPACIL_BASE_URL is not set"),
             Raises("NameError", "name 'base_url' is not defined")}
      [] platform_enum = "STUDAPART" ->
            {ReturnsNone, Returns(0), Returns(1)}

\* The price parameter of the search request the platform's module builds:
\* SeLoger's priceMax when max_price was set; Espacil builds no request and
\* Studapart's URL has no price.
OutboundPrice(platform_enum, request) ==
    IF platform_enum = "SELOGER" /\ request.prix_max # None /\ request.prix_max[1] # 0
    THEN request.prix_max
    ELSE None

\* An HTTP response: its status code, the body's status and count for a
\* ScrapeResponseDTO, and the parts of its error text.
Response(status_code, status, count, detail) ==
    [status_code |-> status_code, status |-> status, count |-> count, detail |-> detail]

\* scrape_properties' response for what the scrape did: 400 with str(e) for a
\* ValueError, 500 with 'Internal server error: ' + str(e) for any other
\* exception, else a ScrapeResponseDTO.
HandlerResponse(result) ==
    CASE result.kind = "raise" /\ result.exc = "ValueError" ->
            Response(400, "", 0, <<result.message>>)
      [] result.kind = "raise" /\ result.exc # "ValueError" ->
            Response(500, "", 0, <<"Internal server error: ", result.message>>)
      [] result.kind = "none" \/ (result.kind = "results" /\ result.n = 0) ->
            Response(200, "error", 0, <<"No results found or scraping failed">>)
      [] OTHER -> Response(200, "success", result.n, <<>>)

\* A request has arrived; nothing else runs in the API process.
InitApi ==
    /\ listings = {}
    /\ now = 1
    /\ svc = [t \in {} |-> NewService]
    /\ calls = 0
    /\ NoScheduler
    /\ NoFields
    /\ NoRun
    /\ api \in [pc : {"query"}, query : Queries, request : {None}, result : {None},
                outbound : {None}, response : {None}]

\* FastAPI reads the query parameters get_scrape_request declares; a missing
\* or ill-typed one is answered with 422 and the dependency is not called.
ParseQuery ==
    /\ api.pc = "query"
    /\ IF QueryErrors(api.query) # {}
       THEN api' = [api EXCEPT !.pc = "responded",
                               !.response = Some(Response(422, "", 0, <<"detail">>))]
       ELSE api' = [api EXCEPT !.pc = "dependency"]
    /\ UNCHANGED <<listings, now, svc, calls, sched, fn, run>>

\* get_scrape_request builds the ScrapeRequestDTO. Its ValidationError is
\* raised inside the dependency, where no handler of the application catches
\* it: the server answers 500 'Internal Server Error'.
GetScrapeRequest ==
    /\ api.pc = "dependency"
    /\ LET args == Parsed(api.query)
       IN IF DTOErrors(args) # {}
          THEN api' = [api EXCEPT !.pc = "responded",
                                  !.response = Some(Response(500, "", 0,
                                                             <<"Internal Server Error">>))]
          ELSE api' = [api EXCEPT !.pc = "handler", !.request = Some(args)]
    /\ UNCHANGED <<listings, now, svc, calls, sched, fn, run>>

\* scrape_properties: the platform's module scrapes and the handler answers.
ScrapeProperties ==
    /\ api.pc = "handler"
    /\ LET request == api.request[1]
           platform_enum == Upper(request.plateforme)
       IN \E result \in ScrapeResults(platform_enum) :
             api' = [api EXCEPT !.pc = "responded",
                                !.result = Some(result),
                                !.outbound = OutboundPrice(platform_enum, request),
                                !.response = Some(HandlerResponse(result))]
    /\ UNCHANGED <<listings, now, svc, calls, sched, fn, run>>

NextApi == ParseQuery \/ GetScrapeRequest \/ ScrapeProperties

ApiSpec == InitApi /\ [][NextApi]_vars

\* ------------------------------------------- one scrape of an HTML adapter
\* scrape_listings after fetch_page: an empty list without a response, else the
\* listings parsed from the page.
ScrapeListingsOf(source, response) ==
    IF response = None THEN <<>> ELSE ScrapeListings(source, response[1])

\* An adapter's scrape_listings is called.
InitFetch ==
    /\ listings = {}
    /\ now = 1
    /\ svc = [t \in {} |-> NewService]
    /\ calls = 0
    /\ NoScheduler
    /\ NoFields
    /\ NoRequest
    /\ run \in [pc : {"fetch"}, source : Sources, fetched : {FALSE}, response : {None},
                ret : {None}, error : {None}]

\* response = self.fetch_page(...): a page arrives, or the request fails and
\* fetch_page returns None (the RequestException, raised once the session's
\* retries are used up, is caught and logged).
Fetch ==
    /\ run.pc = "fetch"
    /\ \E outcome \in {None} \cup {Some(page) : page \in Pages} :
          run' = [run EXCEPT !.pc = "fetched", !.fetched = outcome # None,
                             !.response = outcome]
    /\ UNCHANGED <<listings, now, svc, calls, sched, fn, api>>

\* scrape_listings returns its listings.
ScrapeListingsReturn ==
    /\ run.pc = "fetched"
    /\ run' = [run EXCEPT !.pc = "returned",
                          !.ret = Some(ScrapeListingsOf(run.source, run.response))]
    /\ UNCHANGED <<listings, now, svc, calls, sched, fn, api>>

NextFetch == Fetch \/ ScrapeListingsReturn

FetchSpec == InitFetch /\ [][NextFetch]_vars

\* ------------------------------------- the headless SeLoger scrape (/scrape)
\* text.split(sep)[0]: the text before the first sep.
RECURSIVE SplitFirst(_, _)
SplitFirst(text, sep) ==
    IF text = <<>> \/ Head(text) = sep THEN <<>>
    ELSE <<Head(text)>> \o SplitFirst(Tail(text), sep)

\* str.strip() for texts whose only white space is ' '.
RECURSIVE Strip(_)
Strip(text) ==
    IF text # <<>> /\ Head(text) = " " THEN Strip(Tail(text))
    ELSE IF text # <<>> /\ Last(text) = " " THEN Strip(SubSeq(text, 1, Len(text) - 1))
    ELSE text

\* A card of the result page: blank (no text), link (it has its <a> and its
\* picture and description elements), price (the text of its price element,
\* None without one), surface (what ([\d,]+) matches before 'm2' in its
\* description, None without a match).
Card(blank, link, price, surface) ==
    [blank |-> blank, link |-> link, price |-> price, surface |-> surface]
Cards ==
    {Card(TRUE, FALSE, None, None),
     Card(FALSE, FALSE, None, None),
     Card(FALSE, TRUE, Some(<<"8", "5", "0", " ", "eur">>), Some(<<"3", "5", ",", "5">>)),
     Card(FALSE, TRUE, Some(<<"1", " ", "2", "0", "0", " ", "eur">>), Some(<<"3", "5">>)),
     Card(FALSE, TRUE, None, Some(<<"1", ",", "2", ",", "3">>)),
     Card(FALSE, TRUE, Some(<<"8", "5", "0", " ", "eur">>), Some(<<",">>))}

\* get_price: float(text.split('EUR')[0].strip()); None without the element
\* and when float() raises.
GetPrice(card) ==
    IF card.price = None THEN None
    ELSE ParseFloat(Strip(SplitFirst(card.price[1], "eur")))

\* get_space: float(match.group(1).replace(',', '.')), None without a match.
\* ok is FALSE when float() raises ValueError.
GetSpace(card) ==
    IF card.surface = None THEN [ok |-> TRUE, value |-> None]
    ELSE LET space == ParseFloat(Replace(card.surface[1], <<",">>, <<".">>))
         IN [ok |-> space # None, value |-> space]

\* card_to_result: None for a blank card and, by except NoSuchElementException,
\* for a card without its elements; a ValueError of get_space is not caught
\* (raised TRUE); else the result.
CardToResult(card) ==
    IF card.blank \/ ~card.link THEN [raised |-> FALSE, result |-> None]
    ELSE IF ~GetSpace(card).ok THEN [raised |-> TRUE, result |-> None]
    ELSE [raised |-> FALSE,
          result |-> Some([price |-> GetPrice(card), space |-> GetSpace(card).value])]

\* se_loger_scraper.scrape is called.
\*   session    the Firefox session: "none", "open" or "closed"
\*   requested  driver.get(search_url) was issued
\*   cards, k   the cards find_elements returned, the comprehension's position
\*   results    card_to_result's values so far
\*   ret        the value returned (None or a list), once pc is "returned"
\*   error      the exception that left scrape, once pc is "raised"
InitHeadless ==
    /\ listings = {}
    /\ now = 1
    /\ svc = [t \in {} |-> NewService]
    /\ calls = 0
    /\ NoScheduler
    /\ NoFields
    /\ NoRequest
    /\ run = [pc |-> "autocomplete", auto_completion |-> None, session |-> "none",
              requested |-> FALSE, cards |-> <<>>, k |-> 0, results |-> <<>>,
              ret |-> None, error |-> None]

\* get_autocomplete: None for a response that is not 200, and then scrape
\* returns None; else the suggestions.
GetAutocomplete ==
    /\ run.pc = "autocomplete"
    /\ \E status_code \in {200, 503} :
          IF status_code # 200
          THEN run' = [run EXCEPT !.pc = "returned", !.ret = None]
          ELSE run' = [run EXCEPT !.pc = "driver", !.auto_completion = Some("ids")]
    /\ UNCHANGED <<listings, now, svc, calls, sched, fn, api>>

\* driver = webdriver.Firefox(options=options): the session opens, or the
\* driver cannot start and its exception leaves scrape.
OpenDriver ==
    /\ run.pc = "driver"
    /\ \/ run' = [run EXCEPT !.pc = "get", !.session = "open"]
       \/ run' = [run EXCEPT !.pc = "raised", !.error = Some("WebDriverException")]
    /\ UNCHANGED <<listings, now, svc, calls, sched, fn, api>>

\* driver.get(search_url) and driver.find_elements(...): the cards, or an
\* exception of the driver, which leaves scrape.
GetCards ==
    /\ run.pc = "get"
    /\ \/ \E cards \in SeqsUpTo(Cards, MaxCards) :
             run' = [run EXCEPT !.pc = IF cards = <<>> THEN "close" ELSE "cards",
                                !.requested = TRUE, !.cards = cards, !.k = 1]
       \/ run' = [run EXCEPT !.pc = "raised", !.requested = TRUE,
                              !.error = Some("WebDriverException")]
    /\ UNCHANGED <<listings, now, svc, calls, sched, fn, api>>

\* One round of results = [card_to_result(card) for card in cards if card is
\* not None]: the value for card k is appended, None included; an exception
\* of card_to_result leaves scrape.
ParseCard ==
    /\ run.pc = "cards"
    /\ LET parsed == CardToResult(run.cards[run.k])
       IN IF parsed.raised
          THEN run' = [run EXCEPT !.pc = "raised", !.error = Some("ValueError")]
          ELSE run' = [run EXCEPT !.pc = IF run.k < Len(run.cards) THEN "cards" ELSE "close",
                                  !.k = @ + 1,
                                  !.results = Append(@, parsed.result)]
    /\ UNCHANGED <<listings, now, svc, calls, sched, fn, api>>

\* driver.close() and return results.
CloseAndReturn ==
    /\ run.pc = "close"
    /\ run' = [run EXCEPT !.pc = "returned", !.session = "closed",
                          !.ret = Some(run.results)]
    /\ UNCHANGED <<listings, now, svc, calls, sched, fn, api>>

NextHeadless == GetAutocomplete \/ OpenDriver \/ GetCards \/ ParseCard \/ CloseAndReturn

HeadlessSpec == InitHeadless /\ [][NextHeadless]_vars

\* ------------------------------------------------ the Studapart scrape
\* ThreadPoolExecutor(max_workers=5) and Studapart.per_page's default.
MaxWorkers == 5
DefaultPerPage == 20

Min(a, b) == IF a < b THEN a ELSE b

\* max_properties = min(studapart.per_page, len(property_urls))
MaxProperties(per_page, property_urls) == Min(per_page, property_urls)

\* The executor starts a thread for every task.
WorkerAlwaysFree(inflight) == TRUE

\* The executor runs a task when fewer than max_workers tasks are running.
WorkerFree(inflight) == Cardinality(inflight) < MaxWorkers

\* A page without a listing empties the list.
AppendResultOrReset(properties, i, result) ==
    IF result # None THEN Append(properties, i) ELSE <<>>

\* if result: properties.append(result) - the listing of task i is known by i.
AppendResult(properties, i, result) ==
    IF result # None THEN Append(properties, i) ELSE properties

\* studapart_scraper.scrape is called with a Studapart whose per_page is the
\* default or was set with set_pagination.
\*   property_urls  how many URLs the listing page's JSON-LD holds
\*   submitted      tasks handed to the executor (task i scrapes URL i)
\*   started        tasks the workers have taken, in the order of submission
\*   inflight       tasks whose scrape_property_page is running
\*   failed         tasks whose scrape_property_page returned None
\*   properties     the list the as_completed loop builds
InitStudapart ==
    /\ listings = {}
    /\ now = 1
    /\ svc = [t \in {} |-> NewService]
    /\ calls = 0
    /\ NoScheduler
    /\ NoFields
    /\ NoRequest
    /\ run \in [pc : {"listing"}, per_page : {SmallPerPage, DefaultPerPage},
                property_urls : {0}, submitted : {0}, started : {0}, inflight : {{}},
                failed : {{}}, properties : {<<>>}, ret : {None}]

\* The listing page: None for a status that is not 200 or a RequestException,
\* [] without property URLs, else the URLs are cut to max_properties and
\* submitted to the executor.
FetchListingPage ==
    /\ run.pc = "listing"
    /\ \/ run' = [run EXCEPT !.pc = "returned", !.ret = None]
       \/ \E n \in 0..MaxUrls :
             IF n = 0
             THEN run' = [run EXCEPT !.pc = "returned", !.ret = Some(<<>>)]
             ELSE run' = [run EXCEPT !.pc = "pool", !.property_urls = n,
                                     !.submitted = MaxProperties(run.per_page, n)]
    /\ UNCHANGED <<listings, now, svc, calls, sched, fn, api>>

\* A worker of the pool takes the next submitted task.
StartTask ==
    /\ run.pc = "pool"
    /\ run.started < run.submitted
    /\ WorkerFree(run.inflight)
    /\ run' = [run EXCEPT !.started = @ + 1, !.inflight = @ \cup {run.started + 1}]
    /\ UNCHANGED <<listings, now, svc, calls, sched, fn, api>>

\* scrape_property_page of task i returns - the listing, or None for a status
\* that is not 200, an exception or a price outside the range - and the
\* as_completed loop handles its future.
CompleteTask(i) ==
    /\ run.pc = "pool"
    /\ i \in run.inflight
    /\ \E result \in {None, Some("listing")} :
          run' = [run EXCEPT !.inflight = @ \ {i},
                             !.failed = IF result = None THEN @ \cup {i} ELSE @,
                             !.properties = AppendResult(@, i, result)]
    /\ UNCHANGED <<listings, now, svc, calls, sched, fn, api>>

\* Every future is done: the executor shuts down and scrape returns properties.
ReturnProperties ==
    /\ run.pc = "pool"
    /\ run.started = run.submitted
    /\ run.inflight = {}
    /\ run' = [run EXCEPT !.pc = "returned", !.ret = Some(run.properties)]
    /\ UNCHANGED <<listings, now, svc, calls, sched, fn, api>>

NextStudapart ==
    \/ FetchListingPage
    \/ StartTask
    \/ \E i \in 1..MaxUrls : CompleteTask(i)
    \/ ReturnProperties

StudapartSpec == InitStudapart /\ [][NextStudapart]_vars

\* ------------------------------------------------------------- properties
\* The completed operations the services remember.
Entries == UNION {{svc[t].log[k] : k \in 1..Len(svc[t].log)} : t \in DOMAIN svc}

\* The entry is a save_listing of a record that has its key.
Keyed(e) == {"source", "source_id"} \subseteq DOMAIN e.arg

RowsOf(table, d) == {r \in table : r.source = d.source /\ r.source_id = d.source_id}

\* C1: save_listing(r) called twice in a row with a normalised record r leaves
\* exactly one row of r's key, and that row is the row the first call left in
\* every column (first_seen included) except that last_updated may be later.
C1_Idempotent ==
    \A t \in DOMAIN svc : \A k \in 1..(Len(svc[t].log) - 1) :
        LET first == svc[t].log[k]
            second == svc[t].log[k + 1]
        IN (Keyed(first) /\ second.arg = first.arg) =>
              /\ Cardinality(RowsOf(second.post, first.arg)) = 1
              /\ \A r \in RowsOf(second.post, first.arg) :
                    \E q \in RowsOf(first.post, first.arg) :
                        /\ \A c \in Columns \ {"last_updated"} : r[c] = q[c]
                        /\ r.last_updated >= q.last_updated

\* A service saved the same normalised record twice in a row, the clock having
\* moved between the two calls.
C1_Witness ==
    \E t \in DOMAIN svc : \E k \in 1..(Len(svc[t].log) - 1) :
        /\ Keyed(svc[t].log[k])
        /\ svc[t].log[k + 1].arg = svc[t].log[k].arg
        /\ svc[t].log[k].ret # None
        /\ svc[t].log[k + 1].ret # None
        /\ svc[t].log[k + 1].time > svc[t].log[k].time

\* C2: the table never holds two rows of one (source, source_id), whatever the
\* interleaving of the services' save_listing and deactivate_old_listings steps.
C2_UniqueKey ==
    \A r \in listings : \A q \in listings : KeyOf(r) = KeyOf(q) => r = q

\* Two services raced for one key: an INSERT of a record with its key was rejected.
C2_Witness ==
    \E e \in Entries : Keyed(e) /\ e.ret = None /\ RowsOf(e.pre, e.arg) # {}

\* C3: no row with an empty source_id is ever persisted.
C3_NoEmptySourceId == \A r \in listings : r.source_id # EmptyStr

\* The services that are inside save_listings or have just returned from it.
Saving == {t \in DOMAIN svc : svc[t].pc \in {"query", "flush", "done"}}

DistinctKeys(batch) ==
    \A i \in 1..Len(batch) : \A j \in 1..Len(batch) :
        i # j => \/ batch[i].source_id # batch[j].source_id
                 \/ Get(batch[i], "source", "") # Get(batch[j], "source", "")

\* C4: on every trigger path each record handed to save_listings carries its
\* adapter's source name, and a run whose listings have distinct non-empty
\* source_ids has created or updated one row per listing when save_listings
\* returns.
C4_NormalizedBeforeSave ==
    \A t \in Saving :
        LET batch == svc[t].batch
        IN /\ \A i \in 1..Len(batch) :
                "source" \in DOMAIN batch[i] /\ batch[i].source \in Sources
           /\ (/\ svc[t].pc = "done"
               /\ \A i \in 1..Len(batch) : batch[i].source_id # EmptyStr
               /\ DistinctKeys(batch))
              => svc[t].saved_count = Len(batch)

\* C5: save_listing of a record whose key is in the table overwrites every data
\* field of that row with the record's value and sets last_updated to the
\* call's now(); the row keeps its id and first_seen and no row is added.
C5_UpdateRefreshes ==
    \A e \in Entries :
        (Keyed(e) /\ RowsOf(e.pre, e.arg) # {}) =>
            /\ Cardinality(e.post) = Cardinality(e.pre)
            /\ \A q \in RowsOf(e.pre, e.arg) :
                  \E r \in e.post :
                      /\ r.id = q.id
                      /\ r.first_seen = q.first_seen
                      /\ \A c \in DOMAIN e.arg : r[c] = e.arg[c]
                      /\ r.last_updated = e.time

\* C6: save_listing of a record whose key is not in the table adds exactly one
\* row, of that key, with first_seen = last_updated = the call's now() and
\* is_active = TRUE, returns it, and leaves every other row as it was.
C6_InsertNew ==
    \A e \in Entries :
        (Keyed(e) /\ RowsOf(e.pre, e.arg) = {}) =>
            \E r \in e.post :
                /\ r \notin e.pre
                /\ e.post = e.pre \cup {r}
                /\ \A c \in DOMAIN e.arg : r[c] = e.arg[c]
                /\ r.first_seen = e.time
                /\ r.last_updated = e.time
                /\ r.is_active = TRUE
                /\ e.ret = Some(r)

\* A record of a new key was saved into a table that held another row.
C6_Witness ==
    \E e \in Entries :
        /\ Keyed(e)
        /\ RowsOf(e.pre, e.arg) = {}
        /\ e.pre # {}
        /\ e.ret # None

\* C7: when two records of one save_listings batch have the same key, then once
\* save_listings has returned there is exactly one row of that key and it
\* carries the fields of the record that comes last in the batch.
C7_LastWriterWins ==
    \A t \in DOMAIN svc :
        LET batch == svc[t].batch
        IN svc[t].pc = "done" =>
              \A i \in 1..Len(batch) : \A j \in (i + 1)..Len(batch) :
                  (/\ Keyed([arg |-> batch[i]])
                   /\ batch[j].source = batch[i].source
                   /\ batch[j].source_id = batch[i].source_id
                   /\ \A m \in (j + 1)..Len(batch) :
                         batch[m].source_id # batch[i].source_id)
                  => /\ Cardinality(RowsOf(listings, batch[j])) = 1
                     /\ \A r \in RowsOf(listings, batch[j]) :
                           \A c \in DOMAIN batch[j] : r[c] = batch[j][c]

\* save_listings returned from a batch of two records of one key and different
\* titles.
C7_Witness ==
    \E t \in DOMAIN svc :
        /\ svc[t].pc = "done"
        /\ Len(svc[t].batch) = 2
        /\ Keyed([arg |-> svc[t].batch[1]])
        /\ svc[t].batch[1].source_id = svc[t].batch[2].source_id
        /\ svc[t].batch[1].title # svc[t].batch[2].title
        /\ svc[t].saved_count = 2

\* The entry is a deactivate_old_listings.
Deactivation(e) == "days" \in DOMAIN e.arg

\* The rows deactivate_old_listings(source, days) is to flip: of that source,
\* active, last updated before the clock minus days.
Stale(e, r) ==
    /\ r.source = e.arg.source
    /\ r.is_active
    /\ r.last_updated < e.clock - e.arg.days

\* C8: deactivate_old_listings(source, days) leaves is_active FALSE in exactly
\* the rows that were of that source, active and last updated before now - days,
\* leaves is_active as it was in every other row, and returns how many it flipped.
C8_DeactivatesExactlyStale ==
    \A e \in Entries :
        Deactivation(e) =>
            /\ {r.id : r \in e.post} = {r.id : r \in e.pre}
            /\ \A q \in e.pre : \A r \in e.post :
                  r.id = q.id =>
                      r.is_active = (IF Stale(e, q) THEN FALSE ELSE q.is_active)
            /\ e.ret = Cardinality({q \in e.pre : Stale(e, q)})

\* A deactivation flipped a row and left alone an active row of another source
\* that was as old.
C8_Witness ==
    \E e \in Entries :
        /\ Deactivation(e)
        /\ e.ret > 0
        /\ \E q \in e.pre :
              /\ q.source # e.arg.source
              /\ q.is_active
              /\ q.last_updated < e.clock - e.arg.days

\* The row of this id is active and was last sighted more than Window ago.
Unsighted(id) ==
    \E r \in listings : r.id = id /\ r.is_active /\ now - r.last_updated > Window

\* C9: while the scheduler runs, a listing that is active and has not been
\* sighted for longer than the staleness window is eventually inactive (or
\* sighted again).
C9_StaleEventuallyInactive ==
    \A id \in 1..(1 + Len(Scrapers) * MaxScrape) :
        (main.pc = "started" /\ Unsighted(id)) ~> ~Unsighted(id)

\* The services whose current call is a save_listings.
SavingListings ==
    {t \in Saving : svc[t].log = <<>> \/ ~Deactivation(svc[t].log[1])}

\* The number of entries of a log whose save_listing returned a row.
RECURSIVE Succeeded(_)
Succeeded(log) ==
    IF log = <<>> THEN 0
    ELSE (IF Last(log).ret = None THEN 0 ELSE 1) + Succeeded(SubSeq(log, 1, Len(log) - 1))

\* C10: in save_listings a record whose save fails changes nothing in the table
\* and does not stop the loop: every record of the batch is attempted, the rows
\* committed for earlier records of the batch are still in the table, and the
\* count is the number of records whose save returned a row.
C10_FailureIsolated ==
    \A t \in SavingListings :
        LET log == svc[t].log
        IN /\ svc[t].saved_count = Succeeded(log)
           /\ svc[t].pc = "done" => Len(log) = Len(svc[t].batch)
           /\ \A k \in 1..Len(log) :
                 /\ log[k].arg = svc[t].batch[k]
                 /\ log[k].ret = None =>
                       /\ log[k].post = log[k].pre
                       /\ \A m \in 1..(k - 1) :
                             log[m].ret # None =>
                                 \E r \in listings : r.id = log[m].ret[1].id

\* save_listings returned 1 from a batch of two normalised records: the first
\* record's INSERT lost a race and was rejected, the second record was saved.
C10_Witness ==
    \E t \in SavingListings :
        /\ svc[t].pc = "done"
        /\ Len(svc[t].log) = 2
        /\ Keyed(svc[t].log[1])
        /\ svc[t].log[1].ret = None
        /\ svc[t].log[2].ret # None
        /\ svc[t].saved_count = 1

\* ------------------------------------------- properties of the scheduler
\* What scrape_all is to return for the adapters' outcomes: the normalised
\* listings of the adapters whose scrape returned, in registration order.
RECURSIVE NormalizedOfSucceeded(_)
NormalizedOfSucceeded(scraped) ==
    IF scraped = <<>> THEN <<>>
    ELSE NormalizedOfSucceeded(SubSeq(scraped, 1, Len(scraped) - 1))
         \o (IF Last(scraped).listings = None THEN <<>>
             ELSE NormalizeAll(Last(scraped).source, Last(scraped).listings[1]))

\* C11: scrape_all never raises; when it returns, every registered adapter has
\* been run, whichever of them raised, and the result is the concatenation of
\* the normalised listings of the adapters that did not raise.
C11_ScrapeAllIsolatesFailures ==
    main.source = None =>
        /\ main.pc # "crashed"
        /\ main.pc = "saving" =>
              /\ Len(main.scraped) = Len(Scrapers)
              /\ \A k \in 1..Len(Scrapers) : main.scraped[k].source = Scrapers[k]
              /\ main.all_listings = NormalizedOfSucceeded(main.scraped)
              /\ svc[MainThread].batch = main.all_listings

\* scrape_all returned the listing of a later adapter after an earlier adapter's
\* scrape had raised.
C11_Witness ==
    /\ main.source = None
    /\ main.pc = "saving"
    /\ main.scraped[1].listings = None
    /\ \E k \in 2..Len(Scrapers) :
          main.scraped[k].listings # None /\ main.scraped[k].listings[1] # <<>>
    /\ main.all_listings # <<>>

\* C12: run_once with a source name no adapter is registered for fails (the
\* error leaves run_once), no adapter is run and nothing is persisted.
C12_UnknownSourceFails ==
    (main.source # None /\ main.source[1] \notin Sources /\ main.pc # "run_once")
        => /\ main.pc = "crashed"
           /\ svc[MainThread] = NewService

\* C13: no job ever has two instances running.
C13_NoOverlapPerSource == \A j \in DOMAIN job : job[j] <= 1

\* The jobs of two sources are inside save_listings at the same time.
C13_Witness ==
    \E j \in DOMAIN job : \E k \in DOMAIN job :
        /\ j # k
        /\ job[j] = 1 /\ svc[j].pc \in {"query", "flush"}
        /\ job[k] = 1 /\ svc[k].pc \in {"query", "flush"}

\* C14: an exception inside a job is caught inside the job: the process goes
\* on (the scheduler stays started), the job ends, and the job's trigger fires
\* again, as does every other job's.
C14_JobExceptionCaught ==
    /\ [](\A j \in Jobs : svc[j].pc = "except" => main.pc = "started")
    /\ \A j \in Jobs : (svc[j].pc = "except") ~> (job[j] = 0)
    /\ \A j \in Jobs : (main.pc = "started" /\ job[j] = 0) ~> (job[j] > 0)

\* A job is in its except branch while the job of another source is running.
C14_Witness ==
    \E j \in Jobs : \E k \in Jobs :
        /\ j # k
        /\ svc[j].pc = "except"
        /\ job[k] = 1 /\ svc[k].pc \in {"query", "flush"}

\* C15: a job runs only once run_once has returned and scheduler.start() was
\* called, which needs SCHEDULER_ENABLED: no job runs during the initial run,
\* and none ever runs when the scheduler is disabled.
C15_OneShotBeforeRecurring ==
    /\ \A j \in DOMAIN job : job[j] > 0 => (main.pc = "started" /\ enabled)
    /\ main.pc \in {"started", "exited"} => svc[MainThread] = NewService
    /\ ~enabled => main.pc # "started"

\* A job runs after an initial run over all sources that saved a listing.
C15_Witness ==
    /\ main.source = None
    /\ main.pc = "started"
    /\ \E j \in DOMAIN job : job[j] > 0
    /\ \E r \in listings : r.first_seen > 0

\* --------------------------- properties of the normaliser and the extractors
\* The keys of the canonical schema a normalised record is to carry.
CanonicalKeys == DataColumns \cup {"charges_included", "is_active"}

\* C16: normalize_listing of any partial record returns a record with every
\* key of the canonical schema, source = the adapter's name, the absent
\* optional fields null or empty, charges_included = FALSE and is_active = TRUE.
C16_NormalizeFillsSchema ==
    fn.pc = "normalized" =>
        LET r == fn.normalized[1]
        IN /\ CanonicalKeys \subseteq DOMAIN r
           /\ r.source = fn.source
           /\ \A k \in {"price", "surface", "rooms", "city"} \ DOMAIN fn.listing :
                 r[k] = None
           /\ r.charges_included = FALSE
           /\ r.is_active = TRUE

\* C17: _extract_price of every adapter maps '1 234 EUR' to 1234.0 and
\* '500EUR/mois' to 500.0, and maps 'Prix sur demande' and '' to None.
C17_PriceExtraction ==
    fn.pc = "extracted" =>
        /\ fn.price_text = Some(Text1234) => fn.price = Some(Float(FALSE, 1234, <<>>))
        /\ fn.price_text = Some(Text500Mois) => fn.price = Some(Float(FALSE, 500, <<>>))
        /\ fn.price_text \in {Some(TextSurDemande), Some(<<>>)} => fn.price = None

\* ------------------------------------------------- properties of the web API
Responded == api.pc = "responded"
ClientError == api.response[1].status_code \in 400..499
ServerError == api.response[1].status_code \in 500..599

\* The request carries a number for this parameter and it is not positive.
NotPositive(k) ==
    api.query[k] # None /\ api.query[k][1].numeric /\ api.query[k][1].value <= 0

\* C18: a request whose prix_max or surface_min is a number that is not
\* positive is answered with a 4xx error without any scrape; and no search
\* request is ever built with a price that is not a positive number.
C18_NonPositiveRejected ==
    /\ api.pc # "none" /\ api.outbound # None => api.outbound[1] > 0
    /\ (Responded /\ QueryErrors(api.query) = {}
           /\ (NotPositive("prix_max") \/ NotPositive("surface_min")))
          => /\ api.result = None
             /\ ClientError

\* C19: when the scrape raises something the handler does not anticipate, the
\* response is a 5xx error and the exception's text is no part of its body.
C19_NoInternalDetail ==
    (Responded /\ api.result # None /\ api.result[1].kind = "raise"
       /\ api.result[1].exc # "ValueError")
      => /\ ServerError
         /\ \A i \in 1..Len(api.response[1].detail) :
               api.response[1].detail[i] # api.result[1].message

\* C20: a 4xx answer is given only to a request whose parameters fail
\* validation or name an unknown platform; a scrape that raises is answered
\* with a 5xx error.
C20_ClientErrorOnlyForCriteria ==
    Responded =>
        /\ ClientError =>
              \/ QueryErrors(api.query) # {}
              \/ DTOErrors(Parsed(api.query)) # {}
        /\ (api.result # None /\ api.result[1].kind = "raise") => ServerError

\* ------------------------------------- further properties of the repository
\* C28: save_listing of a normalised record whose key is the key of a
\* deactivated row leaves that row active.
C28_ResightingReactivates ==
    \A e \in Entries :
        (Keyed(e) /\ e.ret # None) =>
            \A q \in RowsOf(e.pre, e.arg) :
                ~q.is_active => \A r \in RowsOf(e.post, e.arg) : r.is_active

\* C29: deactivate_old_listings deletes no row and adds none, and every row,
\* flipped or not, keeps first_seen, last_updated and every data field.
C29_DeactivateOnlyFlips ==
    \A e \in Entries :
        Deactivation(e) =>
            /\ {KeyOf(r) : r \in e.post} = {KeyOf(r) : r \in e.pre}
            /\ \A q \in e.pre : \E r \in e.post :
                  \A c \in Columns \ {"is_active"} : r[c] = q[c]

\* The record is a normalised one: it has every data column.
Normalized(listing_data) == DOMAIN listing_data = DataColumns

\* C30: a save_listing that fails returns None and leaves the table as it was,
\* and the session stays usable: the next save_listing of a normalised record
\* on the same service returns its row, unless its own INSERT is rejected
\* because another session has inserted the key meanwhile.
C30_FailedSaveLeavesNoTrace ==
    \A t \in SavingListings :
        \A k \in 1..Len(svc[t].log) :
            LET e == svc[t].log[k]
            IN e.ret = None =>
                  /\ e.post = e.pre
                  /\ k < Len(svc[t].log) =>
                        LET next == svc[t].log[k + 1]
                        IN Normalized(next.arg) =>
                              \/ next.ret # None /\ next.ret[1] \in next.post
                              \/ /\ RowsOf(next.pre, next.arg) # {}
                                 /\ next.post = next.pre

\* A service whose INSERT was rejected went on, on the same session, to insert
\* a record of another key.
C30_Witness ==
    \E t \in SavingListings :
        \E k \in 1..(Len(svc[t].log) - 1) :
            /\ Normalized(svc[t].log[k].arg)
            /\ svc[t].log[k].ret = None
            /\ svc[t].log[k + 1].ret # None
            /\ svc[t].log[k + 1].ret[1] \notin svc[t].log[k + 1].pre
            /\ svc[t].log[k + 1].arg.source_id # svc[t].log[k].arg.source_id

\* ----------------------------------------------- properties of the adapters
\* C25: scrape_listings fails with FetchError when the fetch failed, and
\* returns the empty sequence, without an error, when the fetch succeeded and
\* the page has no listing.
C25_FetchErrorOnFailure ==
    run.pc = "returned" =>
        /\ ~run.fetched => (run.error = Some("FetchError") /\ run.ret = None)
        /\ (run.fetched /\ run.response[1] = <<>>) =>
              (run.error = None /\ run.ret = Some(<<>>))

\* The scrape is over: it returned or an exception left it.
Over == run.pc \in {"returned", "raised"}

\* C21: no headless scrape ends with its rendering session open.
C21_SessionReleased == Over => run.session # "open"

\* C22: when the autocomplete lookup fails the scrape opens no session, issues
\* no search request and returns the empty sequence.
C22_AutocompleteShortCircuit ==
    (Over /\ run.auto_completion = None) =>
        /\ run.session = "none"
        /\ ~run.requested
        /\ run.pc = "returned"
        /\ run.ret = Some(<<>>)

\* The results of the cards that parse, in page order.
RECURSIVE ParsedCards(_)
ParsedCards(cards) ==
    IF cards = <<>> THEN <<>>
    ELSE ParsedCards(SubSeq(cards, 1, Len(cards) - 1))
         \o (IF CardToResult(Last(cards)).result = None THEN <<>>
             ELSE <<CardToResult(Last(cards)).result>>)

\* C26: the sequence the headless scrape returns has one record for each card
\* that parses, in page order, and no null entry.
C26_UnparseableSkipped ==
    (run.pc = "returned" /\ run.ret # None /\ run.session = "closed") =>
        /\ \A i \in 1..Len(run.ret[1]) : run.ret[1][i] # None
        /\ run.ret[1] = ParsedCards(run.cards)

\* C27: a card whose surface text fails coercion does not make the scrape
\* raise; its result is in the returned sequence with a null surface.
C27_CoercionFailureIsNull ==
    /\ run.pc = "raised" => run.error # Some("ValueError")
    /\ (run.pc = "returned" /\ run.session = "closed") =>
          \A i \in 1..Len(run.cards) :
              (run.cards[i].link /\ ~GetSpace(run.cards[i]).ok) =>
                  /\ run.ret[1][i] # None
                  /\ run.ret[1][i][1].space = None

\* C23: at most 5 detail-page fetches are in flight at any moment and at most
\* per_page detail pages are fetched in one scrape.
C23_BoundedFanOut ==
    run.pc \in {"pool", "returned"} =>
        /\ Cardinality(run.inflight) <= 5
        /\ run.started <= run.per_page

\* Five fetches are in flight and a sixth URL waits for a worker.
C23_Witness ==
    /\ run.pc = "pool"
    /\ Cardinality(run.inflight) = 5
    /\ run.started < run.submitted

\* The elements of a sequence.
Range(seq) == {seq[i] : i \in 1..Len(seq)}

\* C24: the scrape of a page with property URLs returns a list, never None,
\* that holds exactly the listings of the detail pages that did not fail, once
\* each, whatever the order in which the workers finished.
C24_DetailFailureOmitted ==
    (run.pc = "returned" /\ run.submitted > 0) =>
        /\ run.ret # None
        /\ Range(run.ret[1]) = (1..run.submitted) \ run.failed
        /\ Len(run.ret[1]) = Cardinality(Range(run.ret[1]))

\* A scrape returned two listings in an order that is not the order of
\* submission, a detail page between them having failed.
C24_Witness ==
    /\ run.pc = "returned"
    /\ run.ret # None
    /\ Len(run.ret[1]) >= 2
    /\ run.ret[1][1] > run.ret[1][2]
    /\ \E i \in run.failed : run.ret[1][2] < i /\ i < run.ret[1][1]

====
